------------------------------ MODULE Spec2Model ------------------------------
(***************************************************************************)
(* Model of the differentiable top-k-proofs provenance                     *)
(* (core/src/runtime/provenance/differentiable/diff_top_k_proofs.rs) and   *)
(* of the ordering of the scalar Value (core/src/common/value.rs).         *)
(*                                                                         *)
(* Probabilities are exact rationals <<n, d>>.  The inputs are dyadic      *)
(* (1/2, 1/4), for which the f64 arithmetic of the program is exact too.   *)
(***************************************************************************)
EXTENDS Integers, Sequences, FiniteSets, TLC

VARIABLES
  strategy,   \* the PointerFamily P: "exclusive" or "shared"
  ctx,        \* the provenance contexts: [alive, k, diff_probs (a pointer), disjunctions]
  heap,       \* what the pointers P::Pointer<Vec<(f64, T)>> point to
  calls,      \* per context, the tagging_fn calls it has seen: [prob, tag, ret]
  out,        \* the call whose result the caller has not taken yet
  va, vb, vc, \* three scalar Values
  ord         \* what comparing them returned

vars == <<strategy, ctx, heap, calls, out, va, vb, vc, ord>>
valueVars == <<va, vb, vc, ord>>

-----------------------------------------------------------------------------
(* Bounds *)

MaxFacts == 2
MaxK == 2
MaxBatch == 2

Ctx == {1, 2}
Addr == {"p1", "p2"}
NoExclusion == "None"
DisjIds == {"d0"}
\* the InputExclusiveDiffProb { prob, tag, exclusion } fed to the contexts
InputTags == {<<<<1, 2>>, "a", "d0">>, <<<<1, 4>>, "b", NoExclusion>>}

-----------------------------------------------------------------------------
(* Exact rational arithmetic for f64 probabilities *)

Abs(x) == IF x < 0 THEN -x ELSE x

RECURSIVE Gcd(_, _)
Gcd(a, b) == IF b = 0 THEN a ELSE Gcd(b, a % b)

Norm(n, d) ==
  LET g == Gcd(Abs(n), d) IN IF n = 0 THEN <<0, 1>> ELSE <<n \div g, d \div g>>

RZero == <<0, 1>>
ROne == <<1, 1>>
RAdd(a, b) == Norm(a[1] * b[2] + b[1] * a[2], a[2] * b[2])
RSub(a, b) == Norm(a[1] * b[2] - b[1] * a[2], a[2] * b[2])
RMul(a, b) == Norm(a[1] * b[1], a[2] * b[2])
RLt(a, b) == a[1] * b[2] < b[1] * a[2]

RECURSIVE SetToSeq(_)
SetToSeq(S) ==
  IF S = {} THEN <<>>
  ELSE LET m == CHOOSE x \in S : \A y \in S : x <= y
       IN <<m>> \o SetToSeq(S \ {m})


-----------------------------------------------------------------------------
(* Proof representation: DNF formulas over fact identifiers.  A literal is *)
(* a fact identifier with a sign, a clause a set of literals, a formula a  *)
(* set of clauses.                                                         *)

Pos(i) == [id |-> i, pos |-> TRUE]
NegLit(l) == [id |-> l.id, pos |-> ~l.pos]

DNFZero == {}
DNFOne == {{}}
Singleton(i) == {{Pos(i)}}
IsEmpty(t) == t = {}

\* t1.or(t2): union of the clauses
DNFOr(t1, t2) == t1 \cup t2

\* t1.and(t2): pairwise clause-union cross product
DNFAnd(t1, t2) == {c1 \cup c2 : c1 \in t1, c2 \in t2}

\* the complement of t: one negated literal of every clause
RECURSIVE DNFNot(_)
DNFNot(t) ==
  IF t = {} THEN DNFOne
  ELSE LET c == CHOOSE x \in t : TRUE
       IN {r \cup {NegLit(l)} : r \in DNFNot(t \ {c}), l \in c}

PosFacts(c) == {l.id : l \in {x \in c : x.pos}}
FactsOf(t) == {l.id : l \in UNION t}

(* Disjunction registry: group identifier -> the facts declared exclusive *)
DisjunctionsNew == [d \in DisjIds |-> {}]
AddDisjunction(ds, d, fact_id) == [ds EXCEPT ![d] = @ \cup {fact_id}]
HasConflict(ds, pos_facts) ==
  \E d \in DOMAIN ds : Cardinality(ds[d] \cap pos_facts) >= 2

-----------------------------------------------------------------------------
(* The context as the pure operations read it:                             *)
(*   self = [k, diff_probs (the Vec behind the pointer), disjunctions]     *)

\* DNFContextTrait::fact_probability
fact_probability(self, id) == self.diff_probs[id + 1][1]

\* DNFContextTrait::has_disjunction_conflict
has_disjunction_conflict(self, pos_facts) ==
  HasConflict(self.disjunctions, pos_facts)

(* Plain evaluator (RealSemiring) *)
RealAdd(a, b) == RSub(RAdd(a, b), RMul(a, b))
RealMul(a, b) == RMul(a, b)
RealLit(self, l) ==
  IF l.pos THEN fact_probability(self, l.id)
  ELSE RSub(ROne, fact_probability(self, l.id))

RECURSIVE RealClause(_, _)
RealClause(self, c) ==
  IF c = {} THEN ROne
  ELSE LET l == CHOOSE x \in c : TRUE
       IN RealMul(RealLit(self, l), RealClause(self, c \ {l}))

ClauseWeight(self, c) ==
  IF has_disjunction_conflict(self, PosFacts(c)) THEN RZero
  ELSE RealClause(self, c)

RECURSIVE RealWmc(_, _)
RealWmc(self, t) ==
  IF t = {} THEN RZero
  ELSE LET c == CHOOSE x \in t : TRUE
       IN RealAdd(ClauseWeight(self, c), RealWmc(self, t \ {c}))

(* Differentiating evaluator (DualNumberSemiring): a value is             *)
(* [real, deriv], deriv a sparse vector fact identifier -> weight          *)
DualZero == [real |-> RZero, deriv |-> <<>>]
DualOne == [real |-> ROne, deriv |-> <<>>]
DualSingleton(real, i) == [real |-> real, deriv |-> (i :> ROne)]
DerivAt(d, i) == IF i \in DOMAIN d THEN d[i] ELSE RZero
DualAdd(a, b) ==
  [real |-> RAdd(a.real, b.real),
   deriv |-> [i \in DOMAIN a.deriv \cup DOMAIN b.deriv |->
                RAdd(DerivAt(a.deriv, i), DerivAt(b.deriv, i))]]
DualMul(a, b) ==
  [real |-> RMul(a.real, b.real),
   deriv |-> [i \in DOMAIN a.deriv \cup DOMAIN b.deriv |->
                RAdd(RMul(b.real, DerivAt(a.deriv, i)),
                     RMul(a.real, DerivAt(b.deriv, i)))]]
DualNegate(a) ==
  [real |-> RSub(ROne, a.real),
   deriv |-> [i \in DOMAIN a.deriv |-> RSub(RZero, a.deriv[i])]]

\* the closure v of recover_fn: |i| s.singleton(diff_probs[i].0, i)
DualLeaf(self, i) == DualSingleton(self.diff_probs[i + 1][1], i)
DualLit(self, l) ==
  IF l.pos THEN DualLeaf(self, l.id) ELSE DualNegate(DualLeaf(self, l.id))

RECURSIVE DualClause(_, _)
DualClause(self, c) ==
  IF c = {} THEN DualOne
  ELSE LET l == CHOOSE x \in c : TRUE
       IN DualMul(DualLit(self, l), DualClause(self, c \ {l}))

RECURSIVE DualWmc(_, _)
DualWmc(self, t) ==
  IF t = {} THEN DualZero
  ELSE LET c == CHOOSE x \in t : TRUE
       IN DualAdd(IF has_disjunction_conflict(self, PosFacts(c)) THEN DualZero
                  ELSE DualClause(self, c),
                  DualWmc(self, t \ {c}))

-----------------------------------------------------------------------------
(* Top-k algebra of DNFContextTrait *)

RECURSIVE Pow2(_)
Pow2(n) == IF n = 0 THEN 1 ELSE 2 * Pow2(n - 1)

RECURSIVE ClauseCode(_)
ClauseCode(c) ==
  IF c = {} THEN 0
  ELSE LET l == CHOOSE x \in c : TRUE
       IN Pow2(2 * l.id + (IF l.pos THEN 0 ELSE 1)) + ClauseCode(c \ {l})

\* retain only the k clauses of greatest estimated weight; the program is
\* deterministic, and clauses of equal weight are taken in a fixed order
RECURSIVE TakeBest(_, _, _, _)
TakeBest(w, code, t, k) ==
  IF k = 0 \/ t = {} THEN {}
  ELSE LET best == CHOOSE c \in t : \A d \in t :
                     \/ RLt(w[d], w[c])
                     \/ w[c] = w[d] /\ code[c] <= code[d]
       IN {best} \cup TakeBest(w, code, t \ {best}, k - 1)

RetainTopK(self, t, k) ==
  IF Cardinality(t) <= k THEN t
  ELSE TakeBest([c \in t |-> ClauseWeight(self, c)],
                [c \in t |-> ClauseCode(c)], t, k)

base_zero == DNFZero
base_one == DNFOne
top_k_add(self, t1, t2, k) == RetainTopK(self, DNFOr(t1, t2), k)
top_k_mult(self, t1, t2, k) == RetainTopK(self, DNFAnd(t1, t2), k)
top_k_negate(self, t, k) == RetainTopK(self, DNFNot(t), k)

\* the conjunction of the chosen elements' tags and of the negations of the
\* others, taken in batch order from one(); i is the next 0-based index
RECURSIVE ChosenSetFrom(_, _, _, _, _, _)
ChosenSetFrom(self, tags, chosen_set, k, i, acc) ==
  IF i >= Len(tags) THEN acc
  ELSE ChosenSetFrom(self, tags, chosen_set, k, i + 1,
         IF i \in chosen_set THEN top_k_mult(self, acc, tags[i + 1], k)
         ELSE top_k_mult(self, acc, top_k_negate(self, tags[i + 1], k), k))

top_k_tag_of_chosen_set(self, tags, chosen_set, k) ==
  ChosenSetFrom(self, tags, chosen_set, k, 0, base_one)

-----------------------------------------------------------------------------
(* impl Provenance for DiffTopKProofsProvenance: the pure operations *)

zero(self) == base_zero
one(self) == base_one
add_untruncated(self, t1, t2) == DNFOr(t1, t2)
add(self, t1, t2) == top_k_add(self, t1, t2, self.k)
mult_untruncated(self, t1, t2) == DNFAnd(t1, t2)
mult_as_add(self, t1, t2) == top_k_add(self, t1, t2, self.k)
mult(self, t1, t2) == top_k_mult(self, t1, t2, self.k)
negate(self, t) == top_k_negate(self, t, self.k)
discard(self, t) == IsEmpty(t)
saturated(self, t_old, t_new) == t_old = t_new
\* a weight that adds the clauses' weights without the product term
RECURSIVE SumOfClauses(_, _)
SumOfClauses(self, t) ==
  IF t = {} THEN RZero
  ELSE LET c == CHOOSE x \in t : TRUE
       IN RAdd(ClauseWeight(self, c), SumOfClauses(self, t \ {c}))
weight_plain_sum(self, t) == SumOfClauses(self, t)
weight(self, t) == RealWmc(self, t)

\* a recover_fn whose gradient is dense over the fact table
recover_fn_dense(self, t) ==
  LET wmc_result == DualWmc(self, t)
  IN [prob |-> wmc_result.real,
      deriv |-> [n \in 1..Len(self.diff_probs) |->
                   <<n - 1, DerivAt(wmc_result.deriv, n - 1),
                     self.diff_probs[n][2]>>]]

\* OutputDiffProb(prob, deriv): deriv lists (id, weight, label) by fact id
recover_fn(self, t) ==
  LET wmc_result == DualWmc(self, t)
      ids == SetToSeq(DOMAIN wmc_result.deriv)
  IN [prob |-> wmc_result.real,
      deriv |-> [n \in 1..Len(ids) |->
                   <<ids[n], wmc_result.deriv[ids[n]],
                     self.diff_probs[ids[n] + 1][2]>>]]

Elem(tuple, tag) == [tuple |-> tuple, tag |-> tag]
Tags(elems) == [i \in 1..Len(elems) |-> elems[i].tag]

\* (0..n).powerset() of itertools: by size, then lexicographically
SubsetBefore(S, T) ==
  \/ Cardinality(S) < Cardinality(T)
  \/ /\ Cardinality(S) = Cardinality(T)
     /\ S # T
     /\ LET m == CHOOSE x \in (S \ T) \cup (T \ S) :
                   \A y \in (S \ T) \cup (T \ S) : x <= y
        IN m \in S
Powerset(n) ==
  LET all == SUBSET (0..(n - 1))
      rank(S) == Cardinality({T \in all : SubsetBefore(T, S)})
  IN [i \in 1..Cardinality(all) |-> CHOOSE S \in all : rank(S) = i - 1]

count_skips_empty_set(self, elems) ==
  LET sets == Powerset(Len(elems))
  IN [i \in 1..(Len(sets) - 1) |->
        Elem(Cardinality(sets[i + 1]),
             top_k_tag_of_chosen_set(self, Tags(elems), sets[i + 1], self.k))]

dynamic_count(self, elems) ==
  IF Len(elems) = 0 THEN <<Elem(0, one(self))>>
  ELSE LET sets == Powerset(Len(elems))
       IN [i \in 1..Len(sets) |->
             Elem(Cardinality(sets[i]),
                  top_k_tag_of_chosen_set(self, Tags(elems), sets[i], self.k))]

static_count(self, elems) ==
  IF Len(elems) = 0 THEN <<Elem(0, one(self))>>
  ELSE LET sets == Powerset(Len(elems))
       IN [i \in 1..Len(sets) |->
             Elem(Cardinality(sets[i]),
                  top_k_tag_of_chosen_set(self, Tags(elems), sets[i], self.k))]

\* for j in lo..hi (0-based, hi exclusive): agg = mult(agg, negate(batch[j]))
RECURSIVE MultNegated(_, _, _, _, _)
MultNegated(self, elems, lo, hi, agg) ==
  IF lo >= hi THEN agg
  ELSE MultNegated(self, elems, lo + 1, hi,
                   mult(self, agg, negate(self, elems[lo + 1].tag)))

dynamic_min(self, elems) ==
  [n \in 1..Len(elems) |->
     Elem(elems[n].tuple,
          mult(self, MultNegated(self, elems, 0, n - 1, one(self)), elems[n].tag))]

static_min(self, elems) ==
  [n \in 1..Len(elems) |->
     Elem(elems[n].tuple,
          mult(self, MultNegated(self, elems, 0, n - 1, one(self)), elems[n].tag))]

dynamic_max(self, elems) ==
  [n \in 1..Len(elems) |->
     Elem(elems[n].tuple, MultNegated(self, elems, n, Len(elems), elems[n].tag))]

static_max(self, elems) ==
  [n \in 1..Len(elems) |->
     Elem(elems[n].tuple, MultNegated(self, elems, n, Len(elems), elems[n].tag))]

\* the loop of exists: <<exists_tag, not_exists_tag>> after the first n elements
RECURSIVE ExistsLoop(_, _, _)
ExistsLoop(self, elems, n) ==
  IF n = 0 THEN <<zero(self), one(self)>>
  ELSE LET prev == ExistsLoop(self, elems, n - 1)
       IN <<add(self, prev[1], elems[n].tag),
            mult(self, prev[2], negate(self, elems[n].tag))>>

\* an exists that hands out its two tags the wrong way round
exists_swapped(self, elems) ==
  LET r == ExistsLoop(self, elems, Len(elems))
  IN <<Elem(TRUE, r[2]), Elem(FALSE, r[1])>>

dynamic_exists(self, elems) ==
  LET r == ExistsLoop(self, elems, Len(elems))
  IN <<Elem(TRUE, r[1]), Elem(FALSE, r[2])>>

static_exists(self, elems) ==
  LET r == ExistsLoop(self, elems, Len(elems))
  IN <<Elem(TRUE, r[1]), Elem(FALSE, r[2])>>

-----------------------------------------------------------------------------
(* The contexts *)

NullPtr == "null"
Table(c) == heap[ctx[c].diff_probs]
Self(c) == [k |-> ctx[c].k, diff_probs |-> Table(c),
            disjunctions |-> ctx[c].disjunctions]
NotAlive == [alive |-> FALSE, k |-> 0, diff_probs |-> NullPtr,
             disjunctions |-> DisjunctionsNew]
FactIds(c) == {i - 1 : i \in 1..Len(Table(c))}

\* P::new(value): a fresh cell holding value
FreeAddr == CHOOSE a \in Addr : \A c \in Ctx : ctx[c].diff_probs # a

Out(op, c, args, res) ==
  [op |-> op, ctx |-> c, args |-> args, res |-> res,
   prob |-> RZero, deriv |-> <<>>]

\* no call is in flight: the caller has taken what the last call returned
NoCall == Out("none", 1, <<>>, <<>>)
Returned == out = NoCall

\* the calls are synchronous: the caller takes the returned value before it
\* makes the next call
Return ==
  /\ ~Returned
  /\ out' = NoCall
  /\ UNCHANGED <<strategy, ctx, heap, calls, valueVars>>

\* DiffTopKProofsProvenance::new(k)
new(k) == [alive |-> TRUE, k |-> k, diff_probs |-> "p1",
           disjunctions |-> DisjunctionsNew]

InitProv ==
  /\ \E k \in 0..MaxK : ctx = [c \in Ctx |-> IF c = 1 THEN new(k) ELSE NotAlive]
  /\ heap = [a \in Addr \cup {NullPtr} |-> <<>>]
  /\ calls = [c \in Ctx |-> <<>>]
  /\ out = NoCall

\* DiffTopKProofsProvenance::set_k
set_k(c, k) ==
  /\ Returned
  /\ ctx[c].alive
  /\ ctx' = [ctx EXCEPT ![c].k = k]
  /\ out' = Out("set_k", c, <<>>, <<>>)
  /\ UNCHANGED <<strategy, heap, calls, valueVars>>

\* a clone that shares the fact table when the pointer is reference-counted
clone_sharing_handle(c, c2) ==
  /\ Returned
  /\ ctx[c].alive /\ ~ctx[c2].alive
  /\ LET a == IF strategy = "shared" THEN ctx[c].diff_probs ELSE FreeAddr
     IN /\ heap' = [heap EXCEPT ![a] = Table(c)]
        /\ ctx' = [ctx EXCEPT ![c2] = [alive |-> TRUE, k |-> ctx[c].k,
                                       diff_probs |-> a,
                                       disjunctions |-> ctx[c].disjunctions]]
  /\ calls' = [calls EXCEPT ![c2] = calls[c]]
  /\ out' = Out("clone", c, <<>>, <<>>)
  /\ UNCHANGED <<strategy, valueVars>>

\* impl Clone: k copied, the Vec behind the pointer copied into a fresh
\* pointer, the registry copied
clone(c, c2) ==
  /\ Returned
  /\ ctx[c].alive /\ ~ctx[c2].alive
  /\ LET a == FreeAddr
     IN /\ heap' = [heap EXCEPT ![a] = Table(c)]
        /\ ctx' = [ctx EXCEPT ![c2] = [alive |-> TRUE, k |-> ctx[c].k,
                                       diff_probs |-> a,
                                       disjunctions |-> ctx[c].disjunctions]]
  /\ calls' = [calls EXCEPT ![c2] = calls[c]]
  /\ out' = Out("clone", c, <<>>, <<>>)
  /\ UNCHANGED <<strategy, valueVars>>

\* a tagging_fn that looks the input tag up before minting an identifier
tagging_fn_reusing_id(c, prob, tag, exclusion) ==
  /\ Returned
  /\ ctx[c].alive
  /\ Len(Table(c)) < MaxFacts
  /\ LET same == {i \in 1..Len(Table(c)) : Table(c)[i] = <<prob, tag>>}
         fact_id == IF same = {} THEN Len(Table(c))
                    ELSE (CHOOSE i \in same : TRUE) - 1
     IN /\ heap' = IF same = {}
                   THEN [heap EXCEPT ![ctx[c].diff_probs] = Append(@, <<prob, tag>>)]
                   ELSE heap
        /\ ctx' = IF exclusion # NoExclusion
                  THEN [ctx EXCEPT ![c].disjunctions =
                          AddDisjunction(@, exclusion, fact_id)]
                  ELSE ctx
        /\ out' = Out("tagging_fn", c, <<>>, <<Elem(fact_id, Singleton(fact_id))>>)
        /\ calls' = [calls EXCEPT ![c] =
                       Append(@, [prob |-> prob, tag |-> tag,
                                  ret |-> Singleton(fact_id)])]
  /\ UNCHANGED <<strategy, valueVars>>

\* Provenance::tagging_fn
tagging_fn(c, prob, tag, exclusion) ==
  /\ Returned
  /\ ctx[c].alive
  /\ Len(Table(c)) < MaxFacts
  /\ LET fact_id == Len(Table(c))
     IN /\ heap' = [heap EXCEPT ![ctx[c].diff_probs] = Append(@, <<prob, tag>>)]
        /\ ctx' = IF exclusion # NoExclusion
                  THEN [ctx EXCEPT ![c].disjunctions =
                          AddDisjunction(@, exclusion, fact_id)]
                  ELSE ctx
        /\ out' = Out("tagging_fn", c, <<>>, <<Elem(fact_id, Singleton(fact_id))>>)
        /\ calls' = [calls EXCEPT ![c] =
                       Append(@, [prob |-> prob, tag |-> tag,
                                  ret |-> Singleton(fact_id)])]
  /\ UNCHANGED <<strategy, valueVars>>

\* Provenance::recover_fn, called on a tag of context c
Recover(c, t) ==
  /\ Returned
  /\ ctx[c].alive
  /\ FactsOf(t) \subseteq FactIds(c)
  /\ LET r == recover_fn(Self(c), t)
     IN out' = [op |-> "recover_fn", ctx |-> c, args |-> <<t>>, res |-> <<>>,
                prob |-> r.prob, deriv |-> r.deriv]
  /\ UNCHANGED <<strategy, ctx, heap, calls, valueVars>>

\* The tags context c can have produced from its facts under some k up to
\* MaxK: the disjunctions of at most MaxK conjunctions of facts (zero() and
\* one() among them), and the negated facts.  A context whose k was lowered
\* by set_k holds tags of more than k clauses.
ProducedTags(c) ==
  {t \in SUBSET (SUBSET {Pos(i) : i \in FactIds(c)}) : Cardinality(t) <= MaxK}
  \cup {DNFNot(Singleton(i)) : i \in FactIds(c)}

\* the tags of the elements of a batch: facts, disjunctions of at most MaxK
\* facts, and one()
BatchTags(c) ==
  {t \in SUBSET {{Pos(i)} : i \in FactIds(c)} : t # {} /\ Cardinality(t) <= MaxK}
  \cup {DNFOne}

RECURSIVE SeqsUpTo(_, _)
SeqsUpTo(S, n) ==
  IF n = 0 THEN {<<>>}
  ELSE LET shorter == SeqsUpTo(S, n - 1)
       IN shorter \cup {Append(s, x) : s \in {q \in shorter : Len(q) = n - 1}, x \in S}

\* the batches the evaluator passes: element i has the tuple i
Batches(c) ==
  {[i \in 1..Len(ts) |-> Elem(i - 1, ts[i])] : ts \in SeqsUpTo(BatchTags(c), MaxBatch)}

\* Provenance::add, mult, negate called by the evaluator
Add(c) ==
  /\ Returned
  /\ ctx[c].alive
  /\ \E t1 \in ProducedTags(c), t2 \in ProducedTags(c) :
       out' = Out("add", c, <<t1, t2>>, <<Elem(0, add(Self(c), t1, t2))>>)
  /\ UNCHANGED <<strategy, ctx, heap, calls, valueVars>>

Mult(c) ==
  /\ Returned
  /\ ctx[c].alive
  /\ \E t1 \in ProducedTags(c), t2 \in ProducedTags(c) :
       out' = Out("mult", c, <<t1, t2>>, <<Elem(0, mult(Self(c), t1, t2))>>)
  /\ UNCHANGED <<strategy, ctx, heap, calls, valueVars>>

Negate(c) ==
  /\ Returned
  /\ ctx[c].alive
  /\ \E t \in ProducedTags(c) :
       out' = Out("negate", c, <<t>>, <<Elem(0, negate(Self(c), t))>>)
  /\ UNCHANGED <<strategy, ctx, heap, calls, valueVars>>

\* the aggregate combinators, called on a batch
DynamicCount(c) ==
  /\ Returned
  /\ \E batch \in Batches(c) :
       out' = Out("dynamic_count", c, Tags(batch), dynamic_count(Self(c), batch))
  /\ UNCHANGED <<strategy, ctx, heap, calls, valueVars>>
DynamicMin(c) ==
  /\ Returned
  /\ \E batch \in Batches(c) :
       out' = Out("dynamic_min", c, Tags(batch), dynamic_min(Self(c), batch))
  /\ UNCHANGED <<strategy, ctx, heap, calls, valueVars>>
DynamicMax(c) ==
  /\ Returned
  /\ \E batch \in Batches(c) :
       out' = Out("dynamic_max", c, Tags(batch), dynamic_max(Self(c), batch))
  /\ UNCHANGED <<strategy, ctx, heap, calls, valueVars>>
DynamicExists(c) ==
  /\ Returned
  /\ \E batch \in Batches(c) :
       out' = Out("dynamic_exists", c, Tags(batch), dynamic_exists(Self(c), batch))
  /\ UNCHANGED <<strategy, ctx, heap, calls, valueVars>>
StaticCount(c) ==
  /\ Returned
  /\ \E batch \in Batches(c) :
       out' = Out("static_count", c, Tags(batch), static_count(Self(c), batch))
  /\ UNCHANGED <<strategy, ctx, heap, calls, valueVars>>
StaticMin(c) ==
  /\ Returned
  /\ \E batch \in Batches(c) :
       out' = Out("static_min", c, Tags(batch), static_min(Self(c), batch))
  /\ UNCHANGED <<strategy, ctx, heap, calls, valueVars>>
StaticMax(c) ==
  /\ Returned
  /\ \E batch \in Batches(c) :
       out' = Out("static_max", c, Tags(batch), static_max(Self(c), batch))
  /\ UNCHANGED <<strategy, ctx, heap, calls, valueVars>>
StaticExists(c) ==
  /\ Returned
  /\ \E batch \in Batches(c) :
       out' = Out("static_exists", c, Tags(batch), static_exists(Self(c), batch))
  /\ UNCHANGED <<strategy, ctx, heap, calls, valueVars>>

-----------------------------------------------------------------------------
(* The scalar Value (common/value.rs).  A Value is [variant, nan, v]: v is *)
(* the payload as an integer (a string by its rank among the strings, a    *)
(* bool as 0 or 1) and nan says that a float payload is NaN.               *)

\* enum Value: the variants in declaration order
Variants == <<"I8", "I16", "I32", "I64", "I128", "ISize",
              "U8", "U16", "U32", "U64", "U128", "USize",
              "F32", "F64", "Char", "Bool", "Str", "String">>
Discriminant(variant) == CHOOSE i \in 1..Len(Variants) : Variants[i] = variant

Val(variant, v) == [variant |-> variant, nan |-> FALSE, v |-> v]
NaNOf(variant) == [variant |-> variant, nan |-> TRUE, v |-> 0]

Values ==
  {Val("I8", v) : v \in {-1, 0, 1}} \cup {Val("U16", v) : v \in {0, 1}}
  \cup {Val("F32", v) : v \in {0, 1}} \cup {NaNOf("F32")}
  \cup {Val("F64", v) : v \in {-1, 0, 1}} \cup {NaNOf("F64")}
  \cup {Val("Bool", v) : v \in {0, 1}}
  \cup {Val("Str", v) : v \in {0, 1}} \cup {Val("String", v) : v \in {0, 1}}

NoValue == Val("Bool", 0)
NotCompared == [done |-> FALSE]

IntCmp(x, y) == IF x < y THEN "Less" ELSE IF x > y THEN "Greater" ELSE "Equal"

\* #[derive(PartialEq)]: same variant and equal payloads; NaN equals nothing
ValueEq(a, b) ==
  /\ a.variant = b.variant
  /\ ~a.nan /\ ~b.nan
  /\ a.v = b.v

\* #[derive(PartialOrd)]: by discriminant, then by payload; None only when
\* the payloads are floats and one is NaN
partial_cmp(a, b) ==
  IF a.variant # b.variant
  THEN IntCmp(Discriminant(a.variant), Discriminant(b.variant))
  ELSE IF a.nan \/ b.nan THEN "None"
  ELSE IntCmp(a.v, b.v)

\* impl Ord for Value
cmp(a, b) ==
  IF partial_cmp(a, b) # "None" THEN partial_cmp(a, b) ELSE "Equal"

-----------------------------------------------------------------------------
(* Specifications *)

InitValueIdle ==
  /\ va = NoValue /\ vb = NoValue /\ vc = NoValue
  /\ ord = NotCompared

\* the life of the contexts: tagging, set_k, clone, recover
Init ==
  /\ strategy \in {"exclusive", "shared"}
  /\ InitProv
  /\ InitValueIdle

Next ==
  \/ \E c \in Ctx, input_tag \in InputTags :
       tagging_fn(c, input_tag[1], input_tag[2], input_tag[3])
  \/ \E c \in Ctx, k \in 0..MaxK : set_k(c, k)
  \/ \E c \in Ctx, c2 \in Ctx : clone(c, c2)
  \/ \E c \in Ctx : \E n \in 1..Len(calls[c]) : Recover(c, calls[c][n].ret)
  \/ Return

Spec == Init /\ [][Next]_vars

\* the algebra on one context: the evaluator tags facts and combines tags
InitAlg ==
  /\ strategy = "exclusive"
  /\ InitProv
  /\ InitValueIdle

NextAlg ==
  \/ \E input_tag \in InputTags :
       tagging_fn(1, input_tag[1], input_tag[2], input_tag[3])
  \/ \E k \in 0..MaxK : set_k(1, k)
  \/ Add(1)
  \/ Mult(1)
  \/ Negate(1)
  \/ Return

SpecAlg == InitAlg /\ [][NextAlg]_vars

\* the aggregates: the evaluator tags facts and aggregates batches
NextAgg ==
  \/ \E input_tag \in InputTags :
       tagging_fn(1, input_tag[1], input_tag[2], input_tag[3])
  \/ \E k \in 0..MaxK : set_k(1, k)
  \/ DynamicCount(1)
  \/ DynamicMin(1)
  \/ DynamicMax(1)
  \/ DynamicExists(1)
  \/ StaticCount(1)
  \/ StaticMin(1)
  \/ StaticMax(1)
  \/ StaticExists(1)
  \/ Return

SpecAgg == InitAlg /\ [][NextAgg]_vars

\* the ordering of Values: three Values are drawn and compared pairwise
InitValue ==
  /\ strategy = "exclusive"
  /\ ctx = [c \in Ctx |-> IF c = 1 THEN new(0) ELSE NotAlive]
  /\ heap = [a \in Addr \cup {NullPtr} |-> <<>>]
  /\ calls = [c \in Ctx |-> <<>>]
  /\ out = NoCall
  /\ va \in Values /\ vb \in Values /\ vc \in Values
  /\ ord = NotCompared

Compare ==
  /\ ~ord.done
  /\ ord' = [done |-> TRUE,
             ab |-> cmp(va, vb), ba |-> cmp(vb, va),
             bc |-> cmp(vb, vc), ac |-> cmp(va, vc),
             eq_ab |-> ValueEq(va, vb)]
  /\ UNCHANGED <<strategy, ctx, heap, calls, out, va, vb, vc>>

NextValue == Compare

SpecValue == InitValue /\ [][NextValue]_vars

-----------------------------------------------------------------------------
(* Claims about the life of the contexts (Spec) *)

\* C1: in every context the n-th tagging_fn call (from 0) returned
\* singleton(n), the fact table holds exactly one entry per call, and entry n
\* is still the (prob, label) of that call, also when an input tag was tagged
\* twice.
C1_DenseFactIds ==
  \A c \in Ctx : ctx[c].alive =>
    /\ Len(Table(c)) = Len(calls[c])
    /\ \A n \in 1..Len(calls[c]) :
         /\ calls[c][n].ret = Singleton(n - 1)
         /\ Table(c)[n] = <<calls[c][n].prob, calls[c][n].tag>>

C1_SameInputTaggedTwice ==
  /\ out.op = "tagging_fn"
  /\ Len(calls[out.ctx]) = 2
  /\ calls[out.ctx][1].prob = calls[out.ctx][2].prob
  /\ calls[out.ctx][1].tag = calls[out.ctx][2].tag
  /\ out.res[1].tag = Singleton(1)

View(c) == <<ctx[c].k, Table(c), ctx[c].disjunctions>>
ViewNext(c) == <<ctx'[c].k, heap'[ctx'[c].diff_probs], ctx'[c].disjunctions>>

\* C3: a step taken on one context leaves k, the fact table and the
\* registry of every other live context unchanged, and a clone starts with
\* the k, fact table and registry of the context it was cloned from.
C3_CloneIsolation ==
  [][/\ \A c \in Ctx : (ctx[c].alive /\ out'.ctx # c) => ViewNext(c) = View(c)
     /\ \A c2 \in Ctx : (~ctx[c2].alive /\ ctx'[c2].alive) =>
          /\ out'.op = "clone"
          /\ ViewNext(c2) = View(out'.ctx)
          /\ ViewNext(out'.ctx) = View(out'.ctx)]_vars

C3_ClonesDiverged ==
  /\ strategy = "shared"
  /\ ctx[1].alive /\ ctx[2].alive
  /\ Len(Table(1)) = 1 /\ Len(Table(2)) = 2
  /\ ctx[1].k # ctx[2].k
  /\ ctx[1].disjunctions # ctx[2].disjunctions

NotExclusive(c, i) == \A d \in DisjIds : i \notin ctx[c].disjunctions[d]

\* C7: recover_fn on the singleton tag of a fact tagged without exclusivity
\* returns that fact's probability and exactly one derivative entry,
\* (the fact's identifier, 1, its label).
C7_RoundTrip ==
  \A i \in FactIds(out.ctx) :
    (/\ out.op = "recover_fn"
     /\ out.args = <<Singleton(i)>>
     /\ NotExclusive(out.ctx, i))
    => /\ out.prob = Table(out.ctx)[i + 1][1]
       /\ out.deriv = <<<<i, ROne, Table(out.ctx)[i + 1][2]>>>>

C7_RecoveredAmongOthers ==
  /\ out.op = "recover_fn"
  /\ Len(Table(out.ctx)) = 2
  /\ out.args = <<Singleton(1)>>
  /\ NotExclusive(out.ctx, 1)
  /\ out.deriv = <<<<1, ROne, "b">>>>

-----------------------------------------------------------------------------
(* Claims about the algebra (SpecAlg) *)

K(c) == ctx[c].k
Result == out.res[1].tag

\* C2: for k >= 1 the tag a single add or mult returns has at most k
\* clauses, whatever the clause counts of its operands.
C2_TopKBound ==
  (out.op \in {"add", "mult"} /\ K(out.ctx) >= 1)
    => Cardinality(Result) <= K(out.ctx)

C2_OperandsOverK ==
  /\ out.op \in {"add", "mult"}
  /\ K(out.ctx) = 1
  /\ Cardinality(out.args[1]) = 2
  /\ Cardinality(out.args[2]) = 1
  /\ Cardinality(Result) = 1

HasConflictClause(c, t) ==
  \E cl \in t : has_disjunction_conflict(Self(c), PosFacts(cl))

\* C4: add(f, zero()) = f and mult(f, one()) = f for every f of at most k
\* clauses.
C4_IdentityLaws ==
  /\ (/\ out.op = "add"
      /\ out.args[2] = zero(Self(out.ctx))
      /\ Cardinality(out.args[1]) <= K(out.ctx))
     => Result = out.args[1]
  /\ (/\ out.op = "mult"
      /\ out.args[2] = one(Self(out.ctx))
      /\ Cardinality(out.args[1]) <= K(out.ctx))
     => Result = out.args[1]

C4_IdentityOnExclusiveFacts ==
  /\ out.op = "mult"
  /\ out.args[2] = one(Self(out.ctx))
  /\ Cardinality(out.args[1]) <= K(out.ctx)
  /\ HasConflictClause(out.ctx, out.args[1])
  /\ Result = out.args[1]

-----------------------------------------------------------------------------
(* Claims about the aggregates (SpecAgg) *)

ExistsOps == {"dynamic_exists", "static_exists"}
CountOps == {"dynamic_count", "static_count"}
AggregateOps ==
  ExistsOps \cup CountOps
  \cup {"dynamic_min", "static_min", "dynamic_max", "static_max"}

\* the tags are the singleton tags of distinct facts of context c, no two of
\* them in one disjunction group
IndependentFacts(c, tags) ==
  /\ \A n \in 1..Len(tags) : \E i \in FactIds(c) : tags[n] = Singleton(i)
  /\ \A n, m \in 1..Len(tags) : n # m => tags[n] # tags[m]
  /\ ~HasConflict(ctx[c].disjunctions, UNION {FactsOf(tags[n]) : n \in 1..Len(tags)})

\* the product of (1 - p) over the facts of the first n singleton tags
RECURSIVE NoneHolds(_, _, _)
NoneHolds(c, tags, n) ==
  IF n = 0 THEN ROne
  ELSE LET i == CHOOSE x \in FactIds(c) : tags[n] = Singleton(x)
       IN RMul(RSub(ROne, Table(c)[i + 1][1]), NoneHolds(c, tags, n - 1))

TrueTagWeight == weight(Self(out.ctx), out.res[1].tag)

\* C5 as stated: over the singleton tags of n independent facts the true tag
\* of exists weighs 1 - (1 - p1)...(1 - pn).
C5_IndependenceLaw ==
  (out.op \in ExistsOps /\ IndependentFacts(out.ctx, out.args))
    => TrueTagWeight = RSub(ROne, NoneHolds(out.ctx, out.args, Len(out.args)))

\* C5 amended: the same, for at most k facts.
C5_IndependenceLawWithinK ==
  (/\ out.op \in ExistsOps
   /\ IndependentFacts(out.ctx, out.args)
   /\ Len(out.args) <= K(out.ctx))
    => TrueTagWeight = RSub(ROne, NoneHolds(out.ctx, out.args, Len(out.args)))

C5_TwoFactsWithinK ==
  /\ out.op \in ExistsOps
  /\ IndependentFacts(out.ctx, out.args)
  /\ Len(out.args) = 2
  /\ K(out.ctx) = 2
  /\ TrueTagWeight = <<5, 8>>

\* the tags are the singleton tags of two facts of one disjunction group,
\* each of probability 0.5
ExclusivePair(c, tags) ==
  /\ Len(tags) = 2
  /\ \E a, b \in FactIds(c) :
       /\ a # b
       /\ tags = <<Singleton(a), Singleton(b)>>
       /\ \E d \in DisjIds : {a, b} \subseteq ctx[c].disjunctions[d]
       /\ Table(c)[a + 1][1] = <<1, 2>>
       /\ Table(c)[b + 1][1] = <<1, 2>>

\* C6 as stated: exists over two exclusive facts of probability 0.5 reports
\* 0.5.
C6_ExclusivePairHalf ==
  (out.op \in ExistsOps /\ ExclusivePair(out.ctx, out.args))
    => TrueTagWeight = <<1, 2>>

\* C6 amended: it reports 0.75 when k >= 2 (neither clause of the true tag
\* holds both facts), 0.5 when k = 1 and 0 when k = 0.
C6_ExclusivePairByK ==
  (out.op \in ExistsOps /\ ExclusivePair(out.ctx, out.args))
    => TrueTagWeight = IF K(out.ctx) >= 2 THEN <<3, 4>>
                       ELSE IF K(out.ctx) = 1 THEN <<1, 2>> ELSE RZero

C6_ExclusivePairAggregated ==
  /\ out.op \in ExistsOps
  /\ ExclusivePair(out.ctx, out.args)
  /\ K(out.ctx) = 2
  /\ out.res[1].tag = {{Pos(0)}, {Pos(1)}}

\* the element count reports for the index subset S of the batch
CountOf(S) ==
  Elem(Cardinality(S),
       top_k_tag_of_chosen_set(Self(out.ctx), out.args, S, K(out.ctx)))

\* C9: count over n >= 1 elements returns one element per index subset S,
\* labelled with the size of S and tagged with the top-k conjunction of the
\* chosen tags and the negated others, so every count from 0 to n occurs;
\* over the empty batch it returns exactly (0, one()).
C9_CountSubsets ==
  out.op \in CountOps =>
    LET n == Len(out.args)
        all == SUBSET (0..(n - 1))
        expected == {CountOf(S) : S \in all}
        returned == {out.res[i] : i \in 1..Len(out.res)}
    IN IF n = 0 THEN out.res = <<Elem(0, one(Self(out.ctx)))>>
       ELSE /\ Len(out.res) = Cardinality(all)
            /\ returned = expected
            /\ \A c \in 0..n :
                 Cardinality({i \in 1..Len(out.res) : out.res[i].tuple = c})
                   = Cardinality({S \in all : Cardinality(S) = c})
            /\ \A c \in 0..n : \E i \in 1..Len(out.res) : out.res[i].tuple = c

C9_CountedTwoElements ==
  /\ out.op = "static_count"
  /\ Len(out.args) = 2
  /\ Len(out.res) = 4
  /\ out.res[4].tuple = 2
  /\ out.res[4].tag # DNFZero
  /\ out.res[1].tag # DNFZero

\* C10 as stated: every tag an aggregate returns has at most k clauses.
C10_AggregatesWithinK ==
  out.op \in AggregateOps =>
    \A i \in 1..Len(out.res) : Cardinality(out.res[i].tag) <= K(out.ctx)

\* C10 amended: every tag an aggregate returns has at most k clauses, except
\* the tag of the last element of max, which is that element's own tag, and
\* the one() that count and exists return for the empty batch.
C10_AggregatesWithinKExcept ==
  out.op \in AggregateOps =>
    \A i \in 1..Len(out.res) :
      \/ Cardinality(out.res[i].tag) <= K(out.ctx)
      \/ /\ out.op \in {"dynamic_max", "static_max"}
         /\ i = Len(out.args)
         /\ out.res[i].tag = out.args[i]
      \/ /\ out.op \in CountOps \cup ExistsOps
         /\ Len(out.args) = 0
         /\ out.res[i].tag = one(Self(out.ctx))

C10_MaxKeepsLastTag ==
  /\ out.op = "dynamic_max"
  /\ Len(out.args) = 2
  /\ K(out.ctx) = 1
  /\ Cardinality(out.res[2].tag) = 2
  /\ Cardinality(out.res[1].tag) = 1

-----------------------------------------------------------------------------
(* Claim about the ordering of Values (SpecValue) *)

\* C8: cmp is a total order on Values that ordered containers can index by:
\* it is transitive, also in its Equal outcome, reversing the operands
\* reverses the outcome, cmp(a, b) is Equal exactly when a == b, and two
\* values that partial_cmp does not order compare Equal.
C8_TotalOrder ==
  ord.done =>
    /\ (ord.ab = ord.bc) => ord.ac = ord.ab
    /\ ord.ab = "Less" <=> ord.ba = "Greater"
    /\ ord.ab = "Equal" <=> ord.eq_ab
    /\ partial_cmp(va, vb) = "None" => ord.ab = "Equal"

=============================================================================
